---- MODULE Spec2Model ----
(***************************************************************************)
(* Model of backend/app/services/ui: the theme store (theme_manager.py)    *)
(* and the multi-target component generator (framework_adapter.py).        *)
(*                                                                         *)
(* Python values are modelled as follows.                                  *)
(*   - a dict whose iteration order the code never observes is a function  *)
(*     with a string domain (a record);                                    *)
(*   - a dict the code iterates (color_schemes, headings, a heading's      *)
(*     style mapping, props, styles) is a sequence of <<key, value>>       *)
(*     pairs in insertion order, without duplicate keys;                   *)
(*   - a text is a sequence of string tokens, "".join / f-string           *)
(*     interpolation is \o; an exported stylesheet is a sequence of lines  *)
(*     (Python joins them with "\n"), each line a sequence of tokens;      *)
(*   - a call's outcome is a record: [ok |-> TRUE, value |-> v] for a      *)
(*     return, [ok |-> FALSE, exc |-> class, msg |-> message] for a raise. *)
(***************************************************************************)
EXTENDS Integers, Sequences, FiniteSets, TLC

VARIABLES
    themes,   \* ThemeManager.themes: the in-memory index, name -> Theme
    files,    \* themes_dir: record key (file stem of <key>.json) -> payload
    last,     \* the theme-store call that produced this state, with its outcome
    gen       \* the generator call that produced this state, with its outcome

vars == <<themes, files, last, gen>>

(***************************************************************************)
(* Bounds of the model.                                                    *)
(***************************************************************************)
\* Largest number of heading levels plus spacing-scale positions of a payload.
MaxShape == 2
\* Largest number of nodes of a component tree handed to generate_component.
MaxNodes == 3
\* Largest number of nodes of a tree in a generate_project_structure list.
MaxProjNodes == 2
\* Longest list of trees handed to generate_project_structure.
MaxTrees == 2

(***************************************************************************)
(* Generic helpers.                                                        *)
(***************************************************************************)
\* d[k] = v on a dict d modelled as a function.
Put(d, k, v) == [x \in DOMAIN d \cup {k} |-> IF x = k THEN v ELSE d[x]]

\* del d[k] / a payload without key k.
Drop(d, k) == [x \in DOMAIN d \ {k} |-> d[x]]

Return(v) == [ok |-> TRUE, value |-> v]

Raise(exc, msg) == [ok |-> FALSE, exc |-> exc, msg |-> msg]

\* {}: the dict without keys.
EmptyDict == [k \in {} |-> ""]

\* Optional[Theme]: dict.get on a missing key.
None == [none |-> TRUE]

RECURSIVE Flatten(_)
\* The concatenation of a sequence of sequences.
Flatten(ss) == IF ss = <<>> THEN <<>> ELSE Head(ss) \o Flatten(Tail(ss))

(***************************************************************************)
(* Theme data model.                                                       *)
(***************************************************************************)
\* class ColorScheme(Enum): the values of its members.
ColorScheme == {"light", "dark"}

\* @dataclass ColorPalette: its fields, in declaration order (__dict__ order).
ColorPalette == <<"primary", "secondary", "accent", "background", "text",
                  "error", "warning", "success", "info">>

\* @dataclass Breakpoints: its fields, in declaration order (__dict__ order).
Breakpoints == <<"xs", "sm", "md", "lg", "xl", "xxl">>

\* The elements of a sequence.
Range(s) == {s[i] : i \in DOMAIN s}

(***************************************************************************)
(* Raw payloads handed to create_theme / update_theme.                     *)
(***************************************************************************)
Names == {"default", "brand"}

HeadingNames == <<"h1", "h2", "h3", "h4">>

\* The style mapping of heading level i: two entries for odd levels, one for even.
HeadingProps(i) ==
    IF i % 2 = 1
    THEN << <<"font-size", "2rem">>, <<"font-weight", "700">> >>
    ELSE << <<"font-size", "1.5rem">> >>

Palette(scheme) ==
    [slot \in Range(ColorPalette) |-> IF scheme = "dark" THEN "#111" ELSE "#eee"]

\* A complete payload: theme name, the schemes in declared order, h heading
\* levels and s spacing-scale positions.
Payload(name, schemes, h, s) ==
    [name          |-> name,
     color_schemes |-> [i \in 1..Len(schemes) |-> <<schemes[i], Palette(schemes[i])>>],
     typography    |-> [font_family      |-> "Inter",
                        font_size_base   |-> "16px",
                        line_height_base |-> "1.5",
                        headings |-> [i \in 1..h |-> <<HeadingNames[i], HeadingProps(i)>>],
                        body     |-> << <<"font-size", "1rem">> >>],
     spacing       |-> [unit   |-> "0.25rem",
                        scale  |-> [i \in 1..s |-> IF i % 2 = 1 THEN "4px" ELSE "8px"],
                        custom |-> EmptyDict],
     breakpoints   |-> [xs |-> "0", sm |-> "576px", md |-> "768px", lg |-> "992px",
                       xl |-> "1200px", xxl |-> "1400px"],
     custom        |-> [brand |-> name]]

\* Complete payloads: the declared orders of the schemes on the smallest shape,
\* every shape of headings and scale on the light scheme, two themes named "brand".
ValidPayloads ==
    { Payload("default", sch, 0, 0) : sch \in {<<>>, <<"light", "dark">>, <<"dark", "light">>} }
    \cup
    { Payload("default", <<"light">>, hs[1], hs[2]) :
        hs \in {x \in (0..MaxShape) \X (0..MaxShape) : x[1] + x[2] <= MaxShape} }
    \cup
    { Payload("brand", <<"light">>, 0, 0), Payload("brand", <<"dark", "light">>, 1, 1) }

Base == Payload("default", <<"light", "dark">>, 1, 1)

\* Base with one key of the nested dict field missing / one key too many.
WithoutNested(field, k) == [Base EXCEPT ![field] = Drop(Base[field], k)]

WithPalette(p) == [Base EXCEPT !.color_schemes = << <<"light", Palette("light")>>, <<"dark", p>> >>]

\* Payloads with one key missing, one key too many, or a scheme outside the enum.
DeficientPayloads ==
    { Drop(Base, k) : k \in DOMAIN Base }
    \cup { WithoutNested("typography", k) : k \in DOMAIN Base.typography }
    \cup { WithoutNested("spacing", k) : k \in DOMAIN Base.spacing }
    \cup { WithoutNested("breakpoints", k) : k \in Range(Breakpoints) }
    \cup { WithPalette(Drop(Palette("dark"), k)) : k \in Range(ColorPalette) }
    \cup { WithPalette(Put(Palette("dark"), "muted", "#999")),
           [Base EXCEPT !.breakpoints = Put(Base.breakpoints, "xxxl", "1920px")],
           [Base EXCEPT !.color_schemes = << <<"light", Palette("light")>>, <<"sepia", Palette("dark")>> >>] }

Payloads == ValidPayloads \cup DeficientPayloads

\* The payloads update_theme is called with: the complete ones, and one deficient
\* payload of each kind of failure.
UpdatePayloads ==
    ValidPayloads
    \cup { Drop(Base, "custom"), Drop(Base, "name"), WithoutNested("spacing", "scale"),
           WithPalette(Drop(Palette("dark"), "info")),
           [Base EXCEPT !.color_schemes = << <<"light", Palette("light")>>, <<"sepia", Palette("dark")>> >>] }

Formats == {"css", "scss", "less"}

(***************************************************************************)
(* ThemeManager._parse_theme                                               *)
(***************************************************************************)
\* Lines 72-75, the dict comprehension over theme_data["color_schemes"].items():
\* ColorScheme(scheme) raises ValueError for a value outside the enum and
\* ColorPalette(**colors) raises TypeError unless the keys are exactly the nine
\* fields; the first entry in iteration order that cannot be built raises.
ParseColorSchemes(theme_data) ==
    IF "color_schemes" \notin DOMAIN theme_data THEN Raise("KeyError", "color_schemes")
    ELSE
    LET cs  == theme_data.color_schemes
        bad == {i \in DOMAIN cs : \/ cs[i][1] \notin ColorScheme
                                  \/ DOMAIN cs[i][2] # Range(ColorPalette)}
        b   == CHOOSE i \in bad : \A j \in bad : i <= j
    IN  IF bad = {} THEN Return(cs)
        ELSE IF cs[b][1] \notin ColorScheme
        THEN Raise("ValueError", "is not a valid ColorScheme")
        ELSE Raise("TypeError", "ColorPalette.__init__()")

TypographyFields == {"font_family", "font_size_base", "line_height_base", "headings", "body"}

\* Lines 77-83: Typography(...) from five key lookups.
ParseTypography(theme_data) ==
    IF "typography" \notin DOMAIN theme_data THEN Raise("KeyError", "typography")
    ELSE IF TypographyFields \ DOMAIN theme_data.typography # {}
    THEN Raise("KeyError", "typography[...]")
    ELSE Return([k \in TypographyFields |-> theme_data.typography[k]])

SpacingFields == {"unit", "scale", "custom"}

\* ParseSpacing with a missing spacing["custom"] read as {} instead of raising.
ParseSpacingCustomOptional(theme_data) ==
    IF "spacing" \notin DOMAIN theme_data THEN Raise("KeyError", "spacing")
    ELSE IF {"unit", "scale"} \ DOMAIN theme_data.spacing # {}
    THEN Raise("KeyError", "spacing[...]")
    ELSE Return([k \in SpacingFields |->
                    IF k \in DOMAIN theme_data.spacing THEN theme_data.spacing[k]
                    ELSE EmptyDict])

\* Lines 85-89: Spacing(...) from three key lookups.
ParseSpacing(theme_data) ==
    IF "spacing" \notin DOMAIN theme_data THEN Raise("KeyError", "spacing")
    ELSE IF SpacingFields \ DOMAIN theme_data.spacing # {}
    THEN Raise("KeyError", "spacing[...]")
    ELSE Return([k \in SpacingFields |-> theme_data.spacing[k]])

\* Line 91: Breakpoints(**theme_data["breakpoints"]) raises TypeError unless the
\* keys are exactly the six fields.
ParseBreakpoints(theme_data) ==
    IF "breakpoints" \notin DOMAIN theme_data THEN Raise("KeyError", "breakpoints")
    ELSE IF DOMAIN theme_data.breakpoints # Range(Breakpoints)
    THEN Raise("TypeError", "Breakpoints.__init__()")
    ELSE Return(theme_data.breakpoints)

\* Lines 70-100. The parts are evaluated in source order, the first failure
\* propagates; custom is read with .get("custom", {}).
_parse_theme(theme_data) ==
    LET c == ParseColorSchemes(theme_data)
        t == ParseTypography(theme_data)
        s == ParseSpacing(theme_data)
        b == ParseBreakpoints(theme_data)
    IN  IF ~c.ok THEN c
        ELSE IF ~t.ok THEN t
        ELSE IF ~s.ok THEN s
        ELSE IF ~b.ok THEN b
        ELSE IF "name" \notin DOMAIN theme_data THEN Raise("KeyError", "name")
        ELSE Return([name          |-> theme_data.name,
                     color_schemes |-> c.value,
                     typography    |-> t.value,
                     spacing       |-> s.value,
                     breakpoints   |-> b.value,
                     custom        |-> IF "custom" \in DOMAIN theme_data
                                       THEN theme_data.custom ELSE EmptyDict])

(***************************************************************************)
(* ThemeManager: the store operations.  Each is one synchronous call by    *)
(* the single caller; open()/unlink() succeed.                             *)
(***************************************************************************)
NoArg == "-"

Call(op, name, raw, fmt, result) ==
    [op |-> op, name |-> name, raw |-> raw, fmt |-> fmt, result |-> result]

\* create_theme that keeps an existing index entry of the same name.
create_theme_keep_existing(theme_data) ==
    LET p == _parse_theme(theme_data) IN
    /\ last' = Call("create_theme", NoArg, theme_data, NoArg, p)
    /\ IF ~p.ok THEN UNCHANGED <<themes, files>>
       ELSE /\ files' = Put(files, p.value.name, theme_data)
            /\ themes' = IF p.value.name \in DOMAIN themes THEN themes
                         ELSE Put(themes, p.value.name, p.value)
    /\ UNCHANGED gen

\* Lines 102-112.
create_theme(theme_data) ==
    LET p == _parse_theme(theme_data) IN
    /\ last' = Call("create_theme", NoArg, theme_data, NoArg, p)
    /\ IF ~p.ok THEN UNCHANGED <<themes, files>>
       ELSE /\ files' = Put(files, p.value.name, theme_data)
            /\ themes' = Put(themes, p.value.name, p.value)
    /\ UNCHANGED gen

\* Lines 114-116: self.themes.get(name).
get_theme_of(index, name) == IF name \in DOMAIN index THEN index[name] ELSE None

get_theme(name) ==
    /\ last' = Call("get_theme", name, NoArg, NoArg, Return(get_theme_of(themes, name)))
    /\ UNCHANGED <<themes, files, gen>>

\* update_theme that writes the file before it parses the payload.
update_theme_write_first(name, theme_data) ==
    LET p == _parse_theme(theme_data) IN
    IF name \notin DOMAIN themes
    THEN /\ last' = Call("update_theme", name, theme_data, NoArg,
                         Raise("ValueError", "Theme not found"))
         /\ UNCHANGED <<themes, files, gen>>
    ELSE /\ last' = Call("update_theme", name, theme_data, NoArg, p)
         /\ files' = Put(files, name, theme_data)
         /\ themes' = IF p.ok THEN Put(themes, name, p.value) ELSE themes
         /\ UNCHANGED gen

\* Lines 118-131.
update_theme(name, theme_data) ==
    LET p == _parse_theme(theme_data) IN
    IF name \notin DOMAIN themes
    THEN /\ last' = Call("update_theme", name, theme_data, NoArg,
                         Raise("ValueError", "Theme not found"))
         /\ UNCHANGED <<themes, files, gen>>
    ELSE /\ last' = Call("update_theme", name, theme_data, NoArg, p)
         /\ IF ~p.ok THEN UNCHANGED <<themes, files>>
            ELSE /\ files' = Put(files, name, theme_data)
                 /\ themes' = Put(themes, name, p.value)
         /\ UNCHANGED gen

\* Lines 133-140.
delete_theme(name) ==
    IF name \notin DOMAIN themes
    THEN /\ last' = Call("delete_theme", name, NoArg, NoArg,
                         Raise("ValueError", "Theme not found"))
         /\ UNCHANGED <<themes, files, gen>>
    ELSE /\ last' = Call("delete_theme", name, NoArg, NoArg, Return(None))
         /\ files' = Drop(files, name)
         /\ themes' = Drop(themes, name)
         /\ UNCHANGED gen

(***************************************************************************)
(* ThemeManager: stylesheet export.                                        *)
(***************************************************************************)
\* Lines 155-187. Each loop appends one line per item, in iteration order;
\* enumerate() counts from 0.
_export_css(theme) ==
    LET cs == theme.color_schemes
        hd == theme.typography.headings
        sc == theme.spacing.scale
        colors == Flatten([i \in DOMAIN cs |-> [j \in DOMAIN ColorPalette |->
                    <<"  --color-", cs[i][1], "-", ColorPalette[j], ": ",
                      cs[i][2][ColorPalette[j]], ";">>]])
        headings == Flatten([i \in DOMAIN hd |-> [j \in DOMAIN hd[i][2] |->
                    <<"  --typography-", hd[i][1], "-", hd[i][2][j][1], ": ",
                      hd[i][2][j][2], ";">>]])
    IN  << <<":root {">> >>
        \o colors
        \o << <<"  --font-family", ": ", theme.typography.font_family, ";">>,
              <<"  --font-size-base", ": ", theme.typography.font_size_base, ";">>,
              <<"  --line-height-base", ": ", theme.typography.line_height_base, ";">> >>
        \o headings
        \o << <<"  --spacing-unit", ": ", theme.spacing.unit, ";">> >>
        \o [i \in DOMAIN sc |-> <<"  --spacing-", ToString(i - 1), ": ", sc[i], ";">>]
        \o [i \in DOMAIN Breakpoints |->
              <<"  --breakpoint-", Breakpoints[i], ": ", theme.breakpoints[Breakpoints[i]], ";">>]
        \o << <<"}">> >>

\* _export_scss without the $breakpoints map.
_export_scss_no_breakpoints(theme) ==
    LET cs == theme.color_schemes
        hd == theme.typography.headings
        sc == theme.spacing.scale
        colors == Flatten([i \in DOMAIN cs |-> [j \in DOMAIN ColorPalette |->
                    <<"$color-", cs[i][1], "-", ColorPalette[j], ": ",
                      cs[i][2][ColorPalette[j]], ";">>]])
        headings == Flatten([i \in DOMAIN hd |->
                    << <<"  ", hd[i][1], ": (">> >>
                    \o [j \in DOMAIN hd[i][2] |->
                          <<"    ", hd[i][2][j][1], ": ", hd[i][2][j][2], ",">>]
                    \o << <<"  ),">> >>])
    IN  colors
        \o << <<"$font-family", ": ", theme.typography.font_family, ";">>,
              <<"$font-size-base", ": ", theme.typography.font_size_base, ";">>,
              <<"$line-height-base", ": ", theme.typography.line_height_base, ";">> >>
        \o << <<"$typography: (">> >> \o headings \o << <<");">> >>
        \o << <<"$spacing-unit", ": ", theme.spacing.unit, ";">> >>
        \o << <<"$spacing: (">> >>
        \o [i \in DOMAIN sc |-> <<"  ", ToString(i - 1), ": ", sc[i], ",">>]
        \o << <<");">> >>

\* Lines 189-224.
_export_scss(theme) ==
    LET cs == theme.color_schemes
        hd == theme.typography.headings
        sc == theme.spacing.scale
        colors == Flatten([i \in DOMAIN cs |-> [j \in DOMAIN ColorPalette |->
                    <<"$color-", cs[i][1], "-", ColorPalette[j], ": ",
                      cs[i][2][ColorPalette[j]], ";">>]])
        headings == Flatten([i \in DOMAIN hd |->
                    << <<"  ", hd[i][1], ": (">> >>
                    \o [j \in DOMAIN hd[i][2] |->
                          <<"    ", hd[i][2][j][1], ": ", hd[i][2][j][2], ",">>]
                    \o << <<"  ),">> >>])
    IN  colors
        \o << <<"$font-family", ": ", theme.typography.font_family, ";">>,
              <<"$font-size-base", ": ", theme.typography.font_size_base, ";">>,
              <<"$line-height-base", ": ", theme.typography.line_height_base, ";">> >>
        \o << <<"$typography: (">> >> \o headings \o << <<");">> >>
        \o << <<"$spacing-unit", ": ", theme.spacing.unit, ";">> >>
        \o << <<"$spacing: (">> >>
        \o [i \in DOMAIN sc |-> <<"  ", ToString(i - 1), ": ", sc[i], ",">>]
        \o << <<");">> >>
        \o << <<"$breakpoints: (">> >>
        \o [i \in DOMAIN Breakpoints |->
              <<"  ", Breakpoints[i], ": ", theme.breakpoints[Breakpoints[i]], ",">>]
        \o << <<");">> >>

\* export_theme that looks at the format before it looks the theme up.
ExportOutcomeFormatFirst(index, name, format) ==
    IF format \notin {"css", "scss"} THEN Raise("ValueError", "Unsupported format")
    ELSE IF get_theme_of(index, name) = None THEN Raise("ValueError", "Theme not found")
    ELSE IF format = "css" THEN Return(_export_css(index[name]))
    ELSE Return(_export_scss(index[name]))

\* Lines 142-153: what export_theme returns or raises. A Theme is always truthy,
\* so not theme holds exactly for None.
ExportOutcome(index, name, format) ==
    LET theme == get_theme_of(index, name) IN
    IF theme = None THEN Raise("ValueError", "Theme not found")
    ELSE IF format = "css" THEN Return(_export_css(theme))
    ELSE IF format = "scss" THEN Return(_export_scss(theme))
    ELSE Raise("ValueError", "Unsupported format")

export_theme(name, format) ==
    /\ last' = Call("export_theme", name, NoArg, format, ExportOutcome(themes, name, format))
    /\ UNCHANGED <<themes, files, gen>>

\* Lines 62-68, on the records in the order keys (the order glob yields them).
RECURSIVE LoadInOrder(_, _)
LoadInOrder(dir, keys) ==
    IF keys = <<>> THEN EmptyDict
    ELSE LET n    == Len(keys)
             raw  == dir[keys[n]]
             rest == LoadInOrder(dir, SubSeq(keys, 1, n - 1))
         IN  Put(rest, raw.name, _parse_theme(raw).value)

\* Every index _load_themes can build from the records: glob fixes no order.
_load_themes(dir) ==
    { LoadInOrder(dir, keys) :
        keys \in {q \in [1..Cardinality(DOMAIN dir) -> DOMAIN dir] :
                     \A i, j \in DOMAIN q : q[i] = q[j] => i = j} }

(***************************************************************************)
(* The taxonomy of failures, as the code raises them.                      *)
(***************************************************************************)
NotFound(r) == ~r.ok /\ r.exc = "ValueError" /\ r.msg = "Theme not found"

UnsupportedFormat(r) == ~r.ok /\ r.exc = "ValueError" /\ r.msg = "Unsupported format"

\* A key-lookup error, or the constructor/enum error of a malformed nested dict.
ValidationFailure(r) ==
    /\ ~r.ok
    /\ \/ r.exc \in {"KeyError", "TypeError"}
       \/ r.exc = "ValueError" /\ r.msg = "is not a valid ColorScheme"

(***************************************************************************)
(* The theme store as a state machine: ThemeManager(themes_dir) on an      *)
(* empty directory, then any sequence of calls by one caller.              *)
(***************************************************************************)
NoCall == Call("__init__", NoArg, NoArg, NoArg, Return(None))

\* No generator call yet: UIGenerator() only builds the registry (lines 194-200).
NoGenCall == [op |-> "__init__", framework |-> NoArg, input |-> NoArg, result |-> Return(None)]

Init ==
    /\ themes = EmptyDict
    /\ files = EmptyDict
    /\ last = NoCall
    /\ gen = NoGenCall

Create == \E raw \in Payloads : create_theme(raw)

Get == \E name \in Names : get_theme(name)

Update == \E name \in Names, raw \in UpdatePayloads : update_theme(name, raw)

Delete == \E name \in Names : delete_theme(name)

Export == \E name \in Names, format \in Formats : export_theme(name, format)

Next == Create \/ Get \/ Update \/ Delete \/ Export

Spec == Init /\ [][Next]_vars

(***************************************************************************)
(* Properties of the theme store.                                          *)
(***************************************************************************)
\* C1: right after a successful create_theme(raw), get_theme(raw.name) is the
\* Theme _parse_theme(raw); right after a successful delete_theme(name),
\* get_theme(name) is None.
C1_CreateGetDeleteGet ==
    /\ (last.op = "create_theme" /\ last.result.ok) =>
           get_theme_of(themes, last.raw.name) = _parse_theme(last.raw).value
    /\ (last.op = "delete_theme" /\ last.result.ok) =>
           get_theme_of(themes, last.name) = None

\* A create that replaced an entry of an index holding a theme under a key that
\* is not its name.
C1_Witness ==
    /\ last.op = "create_theme" /\ last.result.ok
    /\ last.raw.name = "default" /\ last.raw.typography.headings # <<>>
    /\ "brand" \in DOMAIN themes /\ themes["brand"].name = "default"

\* C2: the index and the records have the same keys, every index entry is
\* stored under its own name and equals the re-parsed record of that key, and
\* _load_themes would rebuild exactly this index.
C2_IndexAgreesWithRecords ==
    /\ DOMAIN themes = DOMAIN files
    /\ \A k \in DOMAIN themes :
          /\ themes[k].name = k
          /\ themes[k] = _parse_theme(files[k]).value
    /\ _load_themes(files) = {themes}

\* The Theme field keys and the required nested keys, as the data model lists them.
ThemeFields == {"name", "color_schemes", "typography", "spacing", "breakpoints", "custom"}

\* A required key other than the top-level custom is absent, or a scheme key is
\* outside {light, dark}.
LacksRequiredKey(raw) ==
    \/ (ThemeFields \ {"custom"}) \ DOMAIN raw # {}
    \/ TypographyFields \ DOMAIN raw.typography # {}
    \/ SpacingFields \ DOMAIN raw.spacing # {}
    \/ Range(Breakpoints) \ DOMAIN raw.breakpoints # {}
    \/ \E i \in DOMAIN raw.color_schemes :
          \/ raw.color_schemes[i][1] \notin {"light", "dark"}
          \/ Range(ColorPalette) \ DOMAIN raw.color_schemes[i][2] # {}

\* C5 as claimed: a payload that lacks any Theme field key, custom included, or
\* any required nested key, or has a scheme key outside {light, dark}, is
\* rejected with a validation failure.
C5_NoDefaultFilling ==
    last.op = "create_theme" =>
        ((LacksRequiredKey(last.raw) \/ "custom" \notin DOMAIN last.raw)
            => ValidationFailure(last.result))

\* C5 amended: such a payload is rejected unless the only key it lacks is the
\* top-level custom, which is filled in as the empty mapping.
C5_NoDefaultButCustom ==
    last.op = "create_theme" =>
        /\ LacksRequiredKey(last.raw) => ValidationFailure(last.result)
        /\ (~LacksRequiredKey(last.raw) /\ "custom" \notin DOMAIN last.raw) =>
               (last.result.ok /\ last.result.value.custom = EmptyDict)

\* A payload lacking one nested key has just been rejected by create_theme.
C5_Witness ==
    /\ last.op = "create_theme"
    /\ "spacing" \in DOMAIN last.raw /\ "custom" \notin DOMAIN last.raw.spacing
    /\ ValidationFailure(last.result)

\* C6 as claimed: an unrecognized format always fails with UnsupportedFormat and
\* an absent name always fails with NotFound.
C6_ExportErrorRules ==
    last.op = "export_theme" =>
        /\ last.fmt \notin {"css", "scss"} => UnsupportedFormat(last.result)
        /\ last.name \notin DOMAIN themes => NotFound(last.result)

\* C6 amended: an absent name fails with NotFound whatever the format; an
\* unrecognized format fails with UnsupportedFormat when the name is present.
C6_ExportNotFoundFirst ==
    last.op = "export_theme" =>
        /\ last.name \notin DOMAIN themes => NotFound(last.result)
        /\ (last.name \in DOMAIN themes /\ last.fmt \notin {"css", "scss"}) =>
               UnsupportedFormat(last.result)

\* An export with an unrecognized format and an absent name, on a non-empty store.
C6_Witness ==
    /\ last.op = "export_theme" /\ last.fmt = "less"
    /\ last.name \notin DOMAIN themes /\ themes # EmptyDict
    /\ ~last.result.ok

\* C7: a call that fails, and any get_theme or export_theme, leaves the index
\* and the records as they were.
C7_FailureAtomicity ==
    [][ (~last'.result.ok \/ last'.op \in {"get_theme", "export_theme"})
            => (themes' = themes /\ files' = files) ]_vars

\* An update of a stored theme has just been rejected by validation.
C7_Witness ==
    /\ last.op = "update_theme" /\ ValidationFailure(last.result)
    /\ last.name \in DOMAIN themes /\ Cardinality(DOMAIN files) = 2

\* The variable entries of an exported text: the lines <key>: <value> ended by
\* ";" (a declaration) or "," (a map entry); the value is the token before the end.
IsEntry(line) ==
    /\ Len(line) >= 4
    /\ line[Len(line)] \in {";", ","}
    /\ line[Len(line) - 2] = ": "

EntryValues(text) ==
    LET e == SelectSeq(text, IsEntry) IN [i \in DOMAIN e |-> e[i][Len(e[i]) - 1]]

RECURSIVE SumLen(_)
SumLen(od) == IF od = <<>> THEN 0 ELSE Len(Head(od)[2]) + SumLen(Tail(od))

\* The values a theme's export lists, group by group.
ExpectedValues(theme) ==
    LET cs == theme.color_schemes
        hd == theme.typography.headings
    IN  Flatten([i \in DOMAIN cs |-> [j \in DOMAIN ColorPalette |-> cs[i][2][ColorPalette[j]]]])
        \o <<theme.typography.font_family, theme.typography.font_size_base,
             theme.typography.line_height_base>>
        \o Flatten([i \in DOMAIN hd |-> [j \in DOMAIN hd[i][2] |-> hd[i][2][j][2]]])
        \o <<theme.spacing.unit>>
        \o theme.spacing.scale
        \o [i \in DOMAIN Breakpoints |-> theme.breakpoints[Breakpoints[i]]]

\* C9: for every stored theme the css and the scss export list the same entries
\* in the same order of groups, 9 per scheme + 3 + one per heading style key +
\* 1 + one per scale position + 6 of them.
C9_CssScssSameEntries ==
    \A k \in DOMAIN themes :
        LET css  == ExportOutcome(themes, k, "css")
            scss == ExportOutcome(themes, k, "scss")
            t    == themes[k]
        IN  /\ css.ok /\ scss.ok
            /\ EntryValues(css.value) = ExpectedValues(t)
            /\ EntryValues(scss.value) = ExpectedValues(t)
            /\ Len(EntryValues(scss.value)) =
                   9 * Len(t.color_schemes) + 3 + SumLen(t.typography.headings)
                   + 1 + Len(t.spacing.scale) + 6

\* A theme with two schemes, a heading level and a scale has just been exported
\* as scss.
C9_Witness ==
    /\ last.op = "export_theme" /\ last.fmt = "scss" /\ last.result.ok
    /\ Len(themes[last.name].color_schemes) = 2
    /\ themes[last.name].typography.headings # <<>>
    /\ themes[last.name].spacing.scale # <<>>

(***************************************************************************)
(* Component trees.                                                        *)
(***************************************************************************)
\* ComponentDefinition (lines 13-19).
Node(name, props, children, styles) ==
    [name |-> name, props |-> props, children |-> children, styles |-> styles,
     framework_specific |-> EmptyDict]

\* The (name, props, styles) of the nodes the model builds trees from.
NodeShapes ==
    { <<"Button", << <<"label", "string">> >>, << <<"color", "red">> >> >>,
      <<"Button", << <<"label", "string">>, <<"size", "number">> >>,
                  << <<"color", "red">>, <<"margin", "0">> >> >>,
      <<"Card", <<>>, <<>> >> }

\* str.lower() on the component names of the model.
lower(name) == CASE name = "Button" -> "button" [] name = "Card" -> "card"

RECURSIVE TreesOfSize(_), Forests(_)
\* The trees of exactly n nodes; the ordered forests of exactly m nodes in all.
TreesOfSize(n) ==
    IF n < 1 THEN {}
    ELSE { Node(sh[1], sh[2], f, sh[3]) : sh \in NodeShapes, f \in Forests(n - 1) }

Forests(m) ==
    IF m = 0 THEN { <<>> }
    ELSE UNION { { <<t>> \o f : t \in TreesOfSize(k), f \in Forests(m - k) } : k \in 1..m }

Trees == UNION { TreesOfSize(n) : n \in 1..MaxNodes }

ProjectTrees == UNION { TreesOfSize(n) : n \in 1..MaxProjNodes }

TreeLists == UNION { [1..n -> ProjectTrees] : n \in 0..MaxTrees }

(***************************************************************************)
(* Framework adapters.  A text is a sequence of tokens: the literal pieces *)
(* of the f-string templates and the interpolated values.                  *)
(***************************************************************************)
\* The token for the backquote character, which a string of the model cannot hold.
BACKTICK == "<U+0060>"

RECURSIVE join(_, _)
\* sep.join(parts), each part a token sequence.
join(sep, parts) ==
    IF parts = <<>> THEN <<>>
    ELSE IF Len(parts) = 1 THEN parts[1]
    ELSE parts[1] \o <<sep>> \o join(sep, Tail(parts))

\* Lines 63-67.
React_generate_styles(styles) ==
    join("\n    ", [i \in DOMAIN styles |-> <<styles[i][1], ": ", styles[i][2], ";">>])

\* Lines 69-73.
React_generate_props(props) ==
    <<"{ ">> \o join(", ", [i \in DOMAIN props |-> <<props[i][1], ": ", props[i][2]>>]) \o <<" }">>

\* Lines 38-61. In the template, {{"".join(children)}} is an escaped brace pair
\* around literal text: the children list is built and never interpolated. The
\* replacement field {...props} of line 56 is read as the literal JSX spread it
\* stands for; CPython rejects it as an f-string expression.
RECURSIVE React_generate_component(_)
React_generate_component(definition) ==
    LET props    == React_generate_props(definition.props)
        styles   == React_generate_styles(definition.styles)
        children == [i \in DOMAIN definition.children |->
                        React_generate_component(definition.children[i])]
    IN  <<"\nimport React from 'react';\nimport styled from 'styled-components';\n\nconst Styled",
          definition.name, " = styled.div", BACKTICK, "\n    ">>
        \o styles
        \o <<"\n", BACKTICK, ";\n\nexport const ", definition.name, " = (">>
        \o props
        \o <<") => {\n    return (\n        <Styled", definition.name,
             " {...props}>\n            {\"\".join(children)}\n        </Styled",
             definition.name, ">\n    );\n};\n">>

\* Lines 105-109.
Vue_generate_styles(styles) ==
    join("\n", [i \in DOMAIN styles |-> <<"    ", styles[i][1], ": ", styles[i][2], ";">>])

\* Lines 111-115.
Vue_generate_props(props) ==
    <<"{\n">>
    \o join(",\n", [i \in DOMAIN props |-> <<"    ", props[i][1], ": { type: ", props[i][2], " }">>])
    \o <<"\n}">>

\* Lines 76-103.
RECURSIVE Vue_generate_component(_)
Vue_generate_component(definition) ==
    LET props    == Vue_generate_props(definition.props)
        styles   == Vue_generate_styles(definition.styles)
        children == [i \in DOMAIN definition.children |->
                        Vue_generate_component(definition.children[i])]
    IN  <<"\n<template>\n    <div class=\"", lower(definition.name), "\">\n        ">>
        \o Flatten(children)
        \o <<"\n    </div>\n</template>\n\n<script>\nexport default {\n    name: '",
             definition.name, "',\n    props: ">>
        \o props
        \o <<"\n}\n</script>\n\n<style scoped>\n.", lower(definition.name), " {\n    ">>
        \o styles
        \o <<"\n}\n</style>\n">>

\* Lines 142-146.
Svelte_generate_styles(styles) ==
    join("\n", [i \in DOMAIN styles |-> <<"        ", styles[i][1], ": ", styles[i][2], ";">>])

\* Lines 148-152.
Svelte_generate_props(props) ==
    join("\n    ", [i \in DOMAIN props |-> <<"export let ", props[i][1], ";">>])

\* Lines 118-140.
RECURSIVE Svelte_generate_component(_)
Svelte_generate_component(definition) ==
    LET props    == Svelte_generate_props(definition.props)
        styles   == Svelte_generate_styles(definition.styles)
        children == [i \in DOMAIN definition.children |->
                        Svelte_generate_component(definition.children[i])]
    IN  <<"\n<script>\n    ">>
        \o props
        \o <<"\n</script>\n\n<div class=\"", lower(definition.name), "\">\n    ">>
        \o Flatten(children)
        \o <<"\n</div>\n\n<style>\n    .", lower(definition.name), " {\n        ">>
        \o styles
        \o <<"\n    }\n</style>\n">>

\* Lines 181-185.
NextJS_generate_styles(styles) ==
    join("\n", [i \in DOMAIN styles |-> <<"    ", styles[i][1], ": ", styles[i][2], ";">>])

\* Lines 187-191.
NextJS_generate_props(props) ==
    <<"{ ">> \o join(", ", [i \in DOMAIN props |-> <<props[i][1]>>]) \o <<" }">>

\* Lines 155-179. As in the React template, {{"".join(children)}} is literal text.
RECURSIVE NextJS_generate_component(_)
NextJS_generate_component(definition) ==
    LET props    == NextJS_generate_props(definition.props)
        styles   == NextJS_generate_styles(definition.styles)
        children == [i \in DOMAIN definition.children |->
                        NextJS_generate_component(definition.children[i])]
    IN  <<"\n'use client';\n\nimport styled from 'styled-components';\n\nconst Styled",
          definition.name, " = styled.div", BACKTICK, "\n    ">>
        \o styles
        \o <<"\n", BACKTICK, ";\n\nexport default function ", definition.name, "(">>
        \o props
        \o <<") {\n    return (\n        <Styled", definition.name,
             ">\n            {\"\".join(children)}\n        </Styled",
             definition.name, ">\n    );\n}\n">>

(***************************************************************************)
(* UIGenerator: the dispatcher.                                            *)
(***************************************************************************)
\* class UIFramework(Enum): the values of its members, the keys of self.adapters.
UIFramework == {"react", "vue", "svelte", "nextjs"}

\* The target identifiers a caller passes: the members, and one that is none.
Targets == UIFramework \cup {"angular"}

\* self.adapters[framework].generate_component(definition).
AdapterRender(framework, definition) ==
    CASE framework = "react"  -> React_generate_component(definition)
      [] framework = "vue"    -> Vue_generate_component(definition)
      [] framework = "svelte" -> Svelte_generate_component(definition)
      [] framework = "nextjs" -> NextJS_generate_component(definition)

\* Lines 202-211.
generate_component(definition, framework) ==
    IF framework \notin UIFramework THEN Raise("ValueError", "Unsupported framework")
    ELSE Return(AdapterRender(framework, definition))

\* Lines 234-242.
_get_extension(framework) ==
    CASE framework = "react"  -> "tsx"
      [] framework = "vue"    -> "vue"
      [] framework = "svelte" -> "svelte"
      [] framework = "nextjs" -> "tsx"
      [] OTHER                -> "tsx"

\* Lines 249-268: json.dumps({...}, indent=2).
tsconfig_json == <<"{\n  \"compilerOptions\": {\n    \"target\": \"es5\",\n    \"lib\": [\n      \"dom\",\n      \"dom.iterable\",\n      \"esnext\"\n    ],\n    \"allowJs\": true,\n    \"skipLibCheck\": true,\n    \"esModuleInterop\": true,\n    \"allowSyntheticDefaultImports\": true,\n    \"strict\": true,\n    \"forceConsistentCasingInFileNames\": true,\n    \"module\": \"esnext\",\n    \"moduleResolution\": \"node\",\n    \"resolveJsonModule\": true,\n    \"isolatedModules\": true,\n    \"noEmit\": true,\n    \"jsx\": \"react-jsx\"\n  },\n  \"include\": [\n    \"src\"\n  ],\n  \"exclude\": [\n    \"node_modules\"\n  ]\n}">>

\* Lines 271-277.
vue_config_js == <<"\nmodule.exports = {\n    configureWebpack: {\n        // Vue.js specific configuration\n    }\n}\n">>

\* Lines 280-288.
svelte_config_js == <<"\nimport adapter from '@sveltejs/adapter-auto';\n\nexport default {\n    kit: {\n        adapter: adapter()\n    }\n};\n">>

\* Lines 291-301.
next_config_js == <<"\n/** @type {import('next').NextConfig} */\nconst nextConfig = {\n    reactStrictMode: true,\n    compiler: {\n        styledComponents: true\n    }\n}\n\nmodule.exports = nextConfig\n">>

\* Lines 244-303.
_generate_config_files(framework) ==
    CASE framework = "react"  -> ("tsconfig.json" :> tsconfig_json)
      [] framework = "vue"    -> ("vue.config.js" :> vue_config_js)
      [] framework = "svelte" -> ("svelte.config.js" :> svelte_config_js)
      [] framework = "nextjs" -> ("next.config.js" :> next_config_js)
      [] OTHER                -> EmptyDict

\* Lines 222-226: the loop over the components, stopped by the first raise.
RECURSIVE ComponentFiles(_, _)
ComponentFiles(components, framework) ==
    IF components = <<>> THEN Return(EmptyDict)
    ELSE LET n         == Len(components)
             before    == ComponentFiles(SubSeq(components, 1, n - 1), framework)
             component == components[n]
             code      == generate_component(component, framework)
             filename  == component.name \o "." \o _get_extension(framework)
         IN  IF ~before.ok THEN before
             ELSE IF ~code.ok THEN code
             ELSE Return(Put(before.value, filename, code.value))

\* Lines 213-232; files.update(config_files) lets the config files win.
generate_project_structure(components, framework, output_dir) ==
    LET generated    == ComponentFiles(components, framework)
        config_files == _generate_config_files(framework)
    IN  IF ~generated.ok THEN generated
        ELSE Return([f \in DOMAIN generated.value \cup DOMAIN config_files |->
                        IF f \in DOMAIN config_files THEN config_files[f]
                        ELSE generated.value[f]])

UnsupportedTarget(r) == ~r.ok /\ r.exc = "ValueError" /\ r.msg = "Unsupported framework"

(***************************************************************************)
(* The generator under its callers: every call is a pure function of its   *)
(* arguments, gen records the call and what it returned or raised.         *)
(***************************************************************************)
GenCall(op, framework, input, result) ==
    [op |-> op, framework |-> framework, input |-> input, result |-> result]

GenerateComponent ==
    \E definition \in Trees, framework \in Targets :
        /\ gen' = GenCall("generate_component", framework, definition,
                          generate_component(definition, framework))
        /\ UNCHANGED <<themes, files, last>>

GenerateProjectStructure ==
    \E components \in TreeLists, framework \in Targets :
        /\ gen' = GenCall("generate_project_structure", framework, components,
                          generate_project_structure(components, framework, "out"))
        /\ UNCHANGED <<themes, files, last>>

GenNext == GenerateComponent \/ GenerateProjectStructure

GenSpec == Init /\ [][GenNext]_vars

(***************************************************************************)
(* Properties of the generator.                                            *)
(***************************************************************************)
\* The text needle occurs in the text hay, token for token.
Contains(hay, needle) ==
    \E i \in 0..(Len(hay) - Len(needle)) : SubSeq(hay, i + 1, i + Len(needle)) = needle

\* C3: a call with an unregistered target fails with UnsupportedTarget and
\* returns nothing, generate_project_structure on the empty list included.
C3_UnregisteredTargetFails ==
    (gen.op \in {"generate_component", "generate_project_structure"}
        /\ gen.framework \notin UIFramework)
    => UnsupportedTarget(gen.result)

RECURSIVE EmbedsChildren(_, _)
\* The rendering of node contains the renderings of its children, in order and
\* with nothing between them, and so does the rendering of every child.
EmbedsChildren(framework, node) ==
    /\ Contains(AdapterRender(framework, node),
                Flatten([i \in DOMAIN node.children |->
                            AdapterRender(framework, node.children[i])]))
    /\ \A i \in DOMAIN node.children : EmbedsChildren(framework, node.children[i])

\* C4: for every adapter the text generate_component returns embeds the
\* renderings of the node's children, concatenated in order, recursively.
C4_ChildrenEmbedded ==
    (gen.op = "generate_component" /\ gen.result.ok)
    => /\ gen.result.value = AdapterRender(gen.framework, gen.input)
       /\ EmbedsChildren(gen.framework, gen.input)

C10_OneFilePerTree ==
    (gen.op = "generate_project_structure" /\ gen.framework \in UIFramework)
    => LET out == gen.result
           ext == _get_extension(gen.framework)
           componentKeys == {gen.input[i].name \o "." \o ext : i \in DOMAIN gen.input}
           config == _generate_config_files(gen.framework)
       IN  /\ out.ok
           /\ \A i \in DOMAIN gen.input :
                 /\ gen.input[i].name \o "." \o ext \in DOMAIN out.value
                 /\ out.value[gen.input[i].name \o "." \o ext]
                        = generate_component(gen.input[i], gen.framework).value
           /\ DOMAIN out.value \ componentKeys = DOMAIN config
           /\ \A f \in DOMAIN config : out.value[f] = config[f]

====
